---- MODULE Spec2Model ----
(***************************************************************************)
(* Model of src/app.py: extraer_vertices (PDF table rows -> vertex         *)
(* records), split_into_blocks (vertex records -> blocks), procesar_pdf    *)
(* (blocks -> rings -> polygons -> files) and the Streamlit caller.        *)
(*                                                                         *)
(* Numbers.  A Python float parsed from a cell is kept as a fixed-point    *)
(* integer counting 1/Scale units, so 500000.5 is 5000005.  A vertex       *)
(* record is the tuple <<v, e, n>> of the source.                          *)
(*                                                                         *)
(* References.  A block is a Python list holding references to records of  *)
(* the input list; a reference is modelled by the record's position in     *)
(* `vertices`, so that two equal records at different positions stay       *)
(* distinguishable.  BlockRecords dereferences a block.                    *)
(***************************************************************************)
EXTENDS Integers, Sequences, FiniteSets, TLC

VARIABLES
    pc,                  \* position of the program
    vertices,            \* the list `vertices` (extraer_vertices, then its callers)
    distance_threshold,  \* argument of split_into_blocks
    salto_max,           \* argument of split_into_blocks
    blocks,              \* `blocks` of split_into_blocks, then the value it returns
    current,             \* `current` of split_into_blocks
    cur_pos,             \* position in `vertices` of `cur` in the loop of split_into_blocks
    row,                 \* `row` of extraer_vertices: the raw cells of the row being read
    rows_left,           \* rows of the current table not yet read
    error_shown,         \* st.error was called by extraer_vertices
    pid,                 \* `pid` of the polygon loop of procesar_pdf
    coords,              \* `coords` of the polygon loop: the ring of the block read last
    handed,              \* the rings passed to Polygon(...), in call order
    verdicts,            \* what became of each block read: "skipped", "valid", "repaired", "dropped"
    geoms,               \* `geoms`: the rings of the retained polygons
    pids,                \* `pids`
    warned,              \* procesar_pdf called st.warning or st.error
    files,               \* the output files written
    csv,                 \* the data rows of the CSV file
    ret                  \* the tuple procesar_pdf returned

split_vars == <<distance_threshold, salto_max, blocks, current, cur_pos>>
extract_vars == <<row, rows_left, error_shown>>
proc_vars == <<pid, coords, handed, verdicts, geoms, pids, warned, files, csv, ret>>
vars == <<pc, vertices, split_vars, extract_vars, proc_vars>>

\* ------------------------------------------------------------------ numbers
Scale == 10

\* the value of `row` before any row is read
NoRow == << <<"no row">> >>

\* the locals and outputs of procesar_pdf before it runs
ProcVarsInit ==
    /\ pid = 0
    /\ coords = <<>>
    /\ handed = <<>>
    /\ verdicts = <<>>
    /\ geoms = <<>>
    /\ pids = <<>>
    /\ warned = FALSE
    /\ files = {}
    /\ csv = <<>>
    /\ ret = <<>>

\* ------------------------------------------------------ split_into_blocks
ShortCircuitLen == 300
MinBlockLen == 3
DefaultDistanceThreshold == 2000
DefaultSaltoMax == 50

Sq(x) == x * x

\* math.hypot(cur_e - prev_e, cur_n - prev_n) > distance_threshold
DistExceeds(prev, cur, dt) ==
    \/ dt < 0
    \/ Sq(cur[2] - prev[2]) + Sq(cur[3] - prev[3]) > Sq(dt * Scale)

\* mutant: a repeated index no longer breaks
IsBreak_StrictLess(prev, cur, dt, sm) ==
    \/ cur[1] < prev[1]
    \/ (cur[1] - prev[1]) > sm
    \/ DistExceeds(prev, cur, dt)

\* mutant: the distance is not looked at
IsBreak_NoDistance(prev, cur, dt, sm) ==
    \/ cur[1] <= prev[1]
    \/ (cur[1] - prev[1]) > sm

\* the condition of the `if` in the loop body
IsBreak(prev, cur, dt, sm) ==
    \/ cur[1] <= prev[1]
    \/ (cur[1] - prev[1]) > sm
    \/ DistExceeds(prev, cur, dt)

\* reinicios = sum(1 for (prev, cur) in zip(vertices, vertices[1:]) if cur[0] <= prev[0])
Reinicios(vs) == Cardinality({i \in 2..Len(vs) : vs[i][1] <= vs[i-1][1]})

\* mutant: the short-circuit already applies to 300 records
ShortCircuit_AtLeast(vs) == Len(vs) >= ShortCircuitLen /\ Reinicios(vs) = 0

\* len(vertices) > 300 and reinicios == 0
ShortCircuit(vs) == Len(vs) > ShortCircuitLen /\ Reinicios(vs) = 0

\* [vertices]: one block referring to every record, in order
WholeBlock(vs) == << [i \in 1..Len(vs) |-> i] >>

\* one iteration of `for prev, cur in zip(vertices, vertices[1:])` on the
\* pair (i-1, i): the pair <<blocks, current>> after the iteration
LoopBody(vs, i, blks, cur_blk, dt, sm) ==
    IF IsBreak(vs[i-1], vs[i], dt, sm)
    THEN << Append(blks, cur_blk), <<i>> >>
    ELSE << blks, Append(cur_blk, i) >>

\* mutant: blocks of 2 records are kept
KeepBlock_Min2(blk) == Len(blk) >= 2

\* len(blk) >= 3
KeepBlock(blk) == Len(blk) >= MinBlockLen

\* if current: blocks.append(current)
\* return [blk for blk in blocks if len(blk) >= 3]
FinalBlocks(blks, cur_blk) ==
    SelectSeq(IF cur_blk # <<>> THEN Append(blks, cur_blk) ELSE blks, KeepBlock)

\* the records a block refers to
BlockRecords(vs, blk) == [k \in 1..Len(blk) |-> vs[blk[k]]]

\* ------------------------------------------- inputs of split_into_blocks
MaxLen == 4
LongExtra == 1

E0 == 500000 * Scale
N0 == 9000000 * Scale
\* two points 5 units apart
Points == { <<E0, N0>>, <<E0 + 3 * Scale, N0 + 4 * Scale>> }
SmallRecords == { <<v, p[1], p[2]>> : v \in 1..3, p \in Points }
DistanceThresholds == { 4, DefaultDistanceThreshold }
SaltoMaxes == { 1, DefaultSaltoMax }

SeqsUpTo(S, n) == UNION { [1..k -> S] : k \in 0..n }

\* indices [1,2,3,1,2,3,4] with every distance under the threshold
MonotonicityVector ==
    [i \in 1..7 |-> << <<1, 2, 3, 1, 2, 3, 4>>[i], E0 + i * Scale, N0 >>]

\* a long sequence of n records, 1 unit apart, indices 1..n, with one defect
\* at position p: none, a reversion, an index jump, or a far-away record
Defects == { "none", "reversion", "jump", "far" }
LongRecord(i, p, d) ==
    << IF d = "reversion" /\ i >= p THEN i - p + 1
       ELSE IF d = "jump" /\ i >= p THEN i + 60
       ELSE i,
       E0 + i * Scale,
       IF d = "far" /\ i = p THEN N0 + 3000 * Scale ELSE N0 >>
LongSeq(n, p, d) == [i \in 1..n |-> LongRecord(i, p, d)]
LongLens == { ShortCircuitLen + x : x \in 0..LongExtra }
LongInputs ==
    { LongSeq(n, p, d) : n \in LongLens, p \in {2, 150, ShortCircuitLen}, d \in Defects }

SplitInputs == SeqsUpTo(SmallRecords, MaxLen) \cup {MonotonicityVector} \cup LongInputs

\* ------------------------------------------- split_into_blocks, its steps
\* entry: the two early returns, or the set-up of the loop
SplitCall ==
    /\ pc = "split_call"
    /\ IF vertices = <<>>
       THEN /\ blocks' = <<>>
            /\ pc' = "split_done"
            /\ UNCHANGED <<current, cur_pos>>
       ELSE IF ShortCircuit(vertices)
       THEN /\ blocks' = WholeBlock(vertices)
            /\ pc' = "split_done"
            /\ UNCHANGED <<current, cur_pos>>
       ELSE /\ blocks' = <<>>
            /\ current' = <<1>>
            /\ cur_pos' = 2
            /\ pc' = "split_loop"
    /\ UNCHANGED <<vertices, distance_threshold, salto_max, extract_vars, proc_vars>>

\* one iteration of the loop
SplitStep ==
    /\ pc = "split_loop"
    /\ cur_pos <= Len(vertices)
    /\ LET r == LoopBody(vertices, cur_pos, blocks, current, distance_threshold, salto_max)
       IN  /\ blocks' = r[1]
           /\ current' = r[2]
    /\ cur_pos' = cur_pos + 1
    /\ UNCHANGED <<pc, vertices, distance_threshold, salto_max, extract_vars, proc_vars>>

\* after the loop: the last open block, the length filter, the return
SplitReturn ==
    /\ pc = "split_loop"
    /\ cur_pos > Len(vertices)
    /\ blocks' = FinalBlocks(blocks, current)
    /\ current' = <<>>
    /\ cur_pos' = 0
    /\ pc' = "split_done"
    /\ UNCHANGED <<vertices, distance_threshold, salto_max, extract_vars, proc_vars>>

SplitInit ==
    /\ pc = "split_call"
    /\ vertices \in SplitInputs
    /\ distance_threshold \in DistanceThresholds
    /\ salto_max \in SaltoMaxes
    /\ blocks = <<>>
    /\ current = <<>>
    /\ cur_pos = 0
    /\ row = NoRow
    /\ rows_left = 0
    /\ error_shown = FALSE
    /\ ProcVarsInit

SplitNext == SplitCall \/ SplitStep \/ SplitReturn

SpecSplit == SplitInit /\ [][SplitNext]_vars

\* ------------------------------------------------------ extraer_vertices
\* A cell is None or a string; a string is a sequence of one-character strings.
MinEastingDigits == 6
MinNorthingDigits == 7

NoneCell == <<"None">>
Digits == <<"0", "1", "2", "3", "4", "5", "6", "7", "8", "9">>
IsDigit(ch) == \E d \in 1..10 : Digits[d] = ch
DigitVal(ch) == (CHOOSE d \in 1..10 : Digits[d] = ch) - 1
AllDigits(str) == \A k \in 1..Len(str) : IsDigit(str[k])

\* the characters re.sub(r"[^\d\.Pp]", "", ...) keeps
Kept(ch) == IsDigit(ch) \/ ch = "." \/ ch = "P" \/ ch = "p"

\* re.sub(r"[^\d\.Pp]", "", str(cell)) if cell else ""
CleanCell(cell) ==
    IF cell = NoneCell \/ cell = <<>> THEN <<>> ELSE SelectSeq(cell, Kept)

\* cleaned_row
CleanRow(r) == [k \in 1..Len(r) |-> CleanCell(r[k])]

\* re.match(r"^P?\d+$", c, re.IGNORECASE)
MatchIndex(c) ==
    /\ c # <<>>
    /\ LET body == IF c[1] = "P" \/ c[1] = "p" THEN Tail(c) ELSE c
       IN  body # <<>> /\ AllDigits(body)

\* the number of leading digits of c
LeadingDigits(c) ==
    IF AllDigits(c) THEN Len(c)
    ELSE (CHOOSE k \in 1..Len(c) : ~IsDigit(c[k]) /\ \A j \in 1..(k - 1) : IsDigit(c[j])) - 1

\* re.match(r"^\d{m,}\.?\d*$", c)
MatchCoord(c, m) ==
    LET k == LeadingDigits(c)
    IN  /\ k >= m
        /\ \/ k = Len(c)
           \/ c[k + 1] = "." /\ AllDigits(SubSeq(c, k + 2, Len(c)))

\* re.match(r"^\d{6,}\.?\d*$", c)
MatchEasting(c) == MatchCoord(c, MinEastingDigits)

\* re.match(r"^\d{7,}\.?\d*$", c)
MatchNorthing(c) == MatchCoord(c, MinNorthingDigits)

IsIndexCell(c) == MatchIndex(c)
IsEastingCell(c) == MatchEasting(c)
IsNorthingCell(c) == MatchNorthing(c)

\* p_matches, e_matches, n_matches
p_matches(cr) == SelectSeq(cr, IsIndexCell)
e_matches(cr) == SelectSeq(cr, IsEastingCell)
n_matches(cr) == SelectSeq(cr, IsNorthingCell)

\* mutant: the last match is taken
PickMatch_Last(ms) == ms[Len(ms)]

\* the element of a list of matches the record is built from: [0]
PickMatch(ms) == ms[1]

\* mutant: only the capital letter is removed
NotCapitalP(ch) == ch # "P"
StripPrefix_UpperOnly(c) == SelectSeq(c, NotCapitalP)

\* p_matches[0].replace("P", "").replace("p", "")
NotPrefixLetter(ch) == ch # "P" /\ ch # "p"
StripPrefix(c) == SelectSeq(c, NotPrefixLetter)

\* str.isdigit()
IsDigitStr(str) == str # <<>> /\ AllDigits(str)

\* int(v_str), for a string of digits
RECURSIVE IntOf(_)
IntOf(str) ==
    IF str = <<>> THEN 0
    ELSE 10 * IntOf(SubSeq(str, 1, Len(str) - 1)) + DigitVal(str[Len(str)])

\* float(c) for a string digits[.digits], in 1/Scale units (digits after the
\* first fractional one are below the resolution of the model)
FloatOf(c) ==
    LET k == LeadingDigits(c)
    IN  IntOf(SubSeq(c, 1, k)) * Scale
        + (IF k + 2 <= Len(c) THEN DigitVal(c[k + 2]) ELSE 0)

\* v = int(v_str) if v_str.isdigit() else len(vertices) + 1
IndexOf(cand, count) ==
    LET v_str == StripPrefix(cand)
    IN  IF IsDigitStr(v_str) THEN IntOf(v_str) ELSE count + 1

\* the `if len(p_matches) >= 1 and ...` of the row loop
RowYields(cr) ==
    Len(p_matches(cr)) >= 1 /\ Len(e_matches(cr)) >= 1 /\ Len(n_matches(cr)) >= 1

\* the body of `for row in table`: the records the row appends to a list
\* that holds `count` records
RowRecords(r, count) ==
    LET cr == CleanRow(r)
    IN  IF RowYields(cr)
        THEN << << IndexOf(PickMatch(p_matches(cr)), count),
                   FloatOf(PickMatch(e_matches(cr))),
                   FloatOf(PickMatch(n_matches(cr))) >> >>
        ELSE <<>>

\* --------------------------------------------- inputs of extraer_vertices
MaxVertices == 2
MaxRows == 2
MaxCells == 3

\* raw cells: None, "PUNTO", "P1", "p 1", "500000.5", "9000000", "9,000,010.5 m"
Cells ==
    { NoneCell,
      <<"P", "U", "N", "T", "O">>,
      <<"P", "1">>,
      <<"p", " ", "1">>,
      <<"5", "0", "0", "0", "0", "0", ".", "5">>,
      <<"9", "0", "0", "0", "0", "0", "0">>,
      <<"9", ",", "0", "0", "0", ",", "0", "1", "0", ".", "5", " ", "m">> }
Rows == UNION { [1..k -> Cells] : k \in 1..MaxCells }

\* ------------------------------------------- extraer_vertices, its steps
\* vertices = []; pdfplumber.open(pdf_path) succeeds
ExtractOpen ==
    /\ pc = "extract_open"
    /\ pc' = "extract_tables"
    /\ UNCHANGED <<vertices, split_vars, extract_vars, proc_vars>>

\* the next table of the next page: skipped when empty or shorter than 2 rows
ExtractTable ==
    /\ pc = "extract_tables"
    /\ \E len_table \in 0..MaxRows :
          IF len_table < 2
          THEN UNCHANGED <<pc, rows_left>>
          ELSE pc' = "extract_rows" /\ rows_left' = len_table
    /\ UNCHANGED <<vertices, split_vars, row, error_shown, proc_vars>>

\* `for row in table` binds the next row
ExtractRow ==
    /\ pc = "extract_rows"
    /\ Len(vertices) < MaxVertices
    /\ \E r \in Rows : row' = r
    /\ pc' = "extract_row_body"
    /\ UNCHANGED <<vertices, split_vars, rows_left, error_shown, proc_vars>>

\* the body of the row loop; `row` is dead once the body has run
ExtractRowBody ==
    /\ pc = "extract_row_body"
    /\ vertices' = vertices \o RowRecords(row, Len(vertices))
    /\ row' = NoRow
    /\ rows_left' = rows_left - 1
    /\ pc' = IF rows_left = 1 THEN "extract_tables" ELSE "extract_rows"
    /\ UNCHANGED <<split_vars, error_shown, proc_vars>>

\* an exception inside the try block (opening, extract_tables, a row):
\* the except clause reports it, then `return vertices`
ExtractRaise ==
    /\ pc \in {"extract_open", "extract_tables", "extract_rows", "extract_row_body"}
    /\ error_shown' = TRUE
    /\ row' = NoRow
    /\ rows_left' = 0
    /\ pc' = "extract_done"
    /\ UNCHANGED <<vertices, split_vars, proc_vars>>

\* no page is left: `return vertices`
ExtractReturn ==
    /\ pc = "extract_tables"
    /\ pc' = "extract_done"
    /\ UNCHANGED <<vertices, split_vars, extract_vars, proc_vars>>

ExtractInit ==
    /\ pc = "extract_open"
    /\ vertices = <<>>
    /\ distance_threshold = DefaultDistanceThreshold
    /\ salto_max = DefaultSaltoMax
    /\ blocks = <<>>
    /\ current = <<>>
    /\ cur_pos = 0
    /\ row = NoRow
    /\ rows_left = 0
    /\ error_shown = FALSE
    /\ ProcVarsInit

ExtractNext ==
    ExtractOpen \/ ExtractTable \/ ExtractRow \/ ExtractRowBody \/ ExtractRaise \/ ExtractReturn

SpecExtract == ExtractInit /\ [][ExtractNext]_vars

\* ---------------------------------------------------------- procesar_pdf
MinRingLen == 4
MinVertices == 3

\* coords = [(e, n) for v, e, n in blk]
BlockCoords(blk_records) ==
    [k \in 1..Len(blk_records) |-> <<blk_records[k][2], blk_records[k][3]>>]

\* mutant: the first pair is appended to every ring
CloseRing_Always(cs) == Append(cs, cs[1])

\* if coords[0] != coords[-1]: coords.append(coords[0])
CloseRing(cs) == IF cs[1] # cs[Len(cs)] THEN Append(cs, cs[1]) ELSE cs

\* if len(coords) < 4: continue
RingSkipped(cs) == Len(cs) < MinRingLen

\* mutant: retained polygons are numbered consecutively
PolygonId_Consecutive(p, retained) == Len(retained) + 1

\* the identifier appended to `pids` for the block numbered p by enumerate
PolygonId(p, retained) == p

\* the rows written for block number p: writer.writerow([pid, v, e, n])
BlockCsvRows(p, blk_records) ==
    [k \in 1..Len(blk_records) |->
        <<p, blk_records[k][1], blk_records[k][2], blk_records[k][3]>>]

\* for pid, blk in enumerate(blocks, start=1): for v, e, n in blk: writerow
RECURSIVE CsvRowsFrom(_, _, _)
CsvRowsFrom(vs, blks, p) ==
    IF p > Len(blks) THEN <<>>
    ELSE BlockCsvRows(p, BlockRecords(vs, blks[p])) \o CsvRowsFrom(vs, blks, p + 1)

CsvRows(vs, blks) == CsvRowsFrom(vs, blks, 1)

ReturnNone3 == <<"None", "None", "None">>
ReturnPaths == <<"gdf", "csv_path", "geojson_path", "zip_name">>

\* -------------------------------------------------- inputs of procesar_pdf
MaxProcLen == 7

\* four records on the corners A, B, C of a 100 x 100 square: 1 at A, 2 at B,
\* 3 at C, 4 at A again
ProcRecords ==
    { <<1, E0, N0>>,
      <<2, E0 + 100 * Scale, N0>>,
      <<3, E0 + 100 * Scale, N0 + 100 * Scale>>,
      <<4, E0, N0>> }
ProcInputs == SeqsUpTo(ProcRecords, MaxProcLen)

\* ------------------------------------------------ procesar_pdf, its steps
\* os.makedirs, vertices = extraer_vertices(pdf_path), the length check and
\* the call of split_into_blocks with the default thresholds
ProcGate ==
    /\ pc = "extract_done"
    /\ IF vertices = <<>> \/ Len(vertices) < MinVertices
       THEN /\ warned' = TRUE
            /\ ret' = ReturnNone3
            /\ pc' = "proc_returned"
            /\ UNCHANGED <<distance_threshold, salto_max>>
       ELSE /\ distance_threshold' = DefaultDistanceThreshold
            /\ salto_max' = DefaultSaltoMax
            /\ pc' = "split_call"
            /\ UNCHANGED <<warned, ret>>
    /\ UNCHANGED <<vertices, blocks, current, cur_pos, extract_vars,
                   pid, coords, handed, verdicts, geoms, pids, files, csv>>

\* blocks = split_into_blocks(...); geoms, pids, areas = [], [], []
ProcLoopStart ==
    /\ pc = "split_done"
    /\ pid' = 1
    /\ pc' = "poly_loop"
    /\ UNCHANGED <<vertices, split_vars, extract_vars,
                   coords, handed, verdicts, geoms, pids, warned, files, csv, ret>>

\* one iteration of `for pid, blk in enumerate(blocks, start=1)`; the
\* geometry library decides is_valid, buffer(0) and is_empty
ProcPolygon ==
    /\ pc = "poly_loop"
    /\ pid <= Len(blocks)
    /\ LET ring == CloseRing(BlockCoords(BlockRecords(vertices, blocks[pid])))
       IN  /\ coords' = ring
           /\ IF RingSkipped(ring)
              THEN /\ verdicts' = Append(verdicts, "skipped")
                   /\ UNCHANGED <<handed, geoms, pids>>
              ELSE /\ handed' = Append(handed, ring)
                   /\ \E verdict \in {"valid", "repaired", "dropped"} :
                         /\ verdicts' = Append(verdicts, verdict)
                         /\ IF verdict = "dropped"
                            THEN UNCHANGED <<geoms, pids>>
                            ELSE /\ geoms' = Append(geoms, <<verdict, ring>>)
                                 /\ pids' = Append(pids, PolygonId(pid, geoms))
    /\ pid' = pid + 1
    /\ UNCHANGED <<pc, vertices, split_vars, extract_vars, warned, files, csv, ret>>

\* after the loop: no polygon, or the report and the three output files
ProcFinish ==
    /\ pc = "poly_loop"
    /\ pid > Len(blocks)
    /\ IF geoms = <<>>
       THEN /\ warned' = TRUE
            /\ ret' = ReturnNone3
            /\ UNCHANGED <<files, csv>>
       ELSE /\ csv' = CsvRows(vertices, blocks)
            /\ files' = {"csv", "geojson", "shapefile_zip"}
            /\ ret' = ReturnPaths
            /\ UNCHANGED warned
    /\ pc' = "proc_returned"
    /\ UNCHANGED <<vertices, split_vars, extract_vars,
                   pid, coords, handed, verdicts, geoms, pids>>

\* gdf, csv_path, geojson_path, zip_name = procesar_pdf(...); if gdf is not None
UiUnpack ==
    /\ pc = "proc_returned"
    /\ pc' = IF Len(ret) # 4 THEN "ui_value_error"
             ELSE IF ret[1] # "None" THEN "ui_results_shown"
             ELSE "ui_idle"
    /\ UNCHANGED <<vertices, split_vars, extract_vars, proc_vars>>

\* the state in which extraer_vertices has returned its list to procesar_pdf
ProcInit ==
    /\ pc = "extract_done"
    /\ vertices \in ProcInputs
    /\ distance_threshold = DefaultDistanceThreshold
    /\ salto_max = DefaultSaltoMax
    /\ blocks = <<>>
    /\ current = <<>>
    /\ cur_pos = 0
    /\ row = NoRow
    /\ rows_left = 0
    /\ error_shown = FALSE
    /\ ProcVarsInit

ProcNext ==
    \/ ProcGate
    \/ SplitCall
    \/ SplitStep
    \/ SplitReturn
    \/ ProcLoopStart
    \/ ProcPolygon
    \/ ProcFinish
    \/ UiUnpack

SpecProc == ProcInit /\ [][ProcNext]_vars

\* ================================================================ claims
\* ------------------------------------------------------------ vocabulary
Elems(sq) == { sq[k] : k \in 1..Len(sq) }
Interval(a, b) == [k \in 1..(b - a + 1) |-> a + k - 1]
SameBlock(a, b) == \E k \in 1..Len(blocks) : a \in Elems(blocks[k]) /\ b \in Elems(blocks[k])

\* the three break conditions between the records at positions p-1 and p
Reverts(p) == vertices[p][1] <= vertices[p-1][1]
Jumps(p) == vertices[p][1] - vertices[p-1][1] > salto_max
Far(p) ==
    Sq(vertices[p][2] - vertices[p-1][2]) + Sq(vertices[p][3] - vertices[p-1][3])
        > Sq(distance_threshold * Scale)
BreakPositions == { p \in 2..Len(vertices) : Reverts(p) \/ Jumps(p) \/ Far(p) }
NoReversion == \A p \in 2..Len(vertices) : ~Reverts(p)
ShortCircuitApplies == Len(vertices) > 300 /\ NoReversion

\* the maximal runs without a break: each starts at position 1 or at a break
\* and ends just before the next break
RunStarts == { p \in 1..Len(vertices) : p = 1 \/ p \in BreakPositions }
RunEnd(s) ==
    LET later == { p \in BreakPositions : p > s }
    IN  IF later = {} THEN Len(vertices)
        ELSE (CHOOSE p \in later : \A q \in later : p <= q) - 1
KeptStarts == { s \in RunStarts : RunEnd(s) - s + 1 >= 3 }

\* C1: the returned blocks partition an accepted subset of the input: every
\* block has at least 3 records, and the positions of the concatenated
\* blocks are positions of the input in strictly increasing order (an
\* order-preserving subsequence in which no position occurs twice).
C1_Partition ==
    pc = "split_done" =>
        /\ \A k \in 1..Len(blocks) :
              /\ Len(blocks[k]) >= 3
              /\ \A j \in 1..Len(blocks[k]) : blocks[k][j] \in 1..Len(vertices)
              /\ \A j \in 1..(Len(blocks[k]) - 1) : blocks[k][j] < blocks[k][j+1]
        /\ \A k \in 1..(Len(blocks) - 1) :
              blocks[k][Len(blocks[k])] < blocks[k+1][1]

\* two blocks are returned and at least one record is dropped
C1_Witness ==
    /\ pc = "split_done"
    /\ Len(blocks) = 2
    /\ Len(blocks[1]) + Len(blocks[2]) < Len(vertices)

\* C2: when the short-circuit does not apply, the returned blocks are, in
\* input order, exactly the maximal break-free runs of length >= 3, a break
\* being a reversion, an index jump above salto_max or a distance above
\* distance_threshold; indices [1,2,3,1,2,3,4] with small distances give
\* the two blocks [1,2,3] and [1,2,3,4].
C2_MaximalRuns ==
    (pc = "split_done" /\ ~ShortCircuitApplies) =>
        /\ Len(blocks) = Cardinality(KeptStarts)
        /\ \A k \in 1..Len(blocks) :
              \E s \in KeptStarts : blocks[k] = Interval(s, RunEnd(s))
        /\ \A k \in 1..(Len(blocks) - 1) : blocks[k][1] < blocks[k+1][1]
        /\ vertices = MonotonicityVector =>
              [k \in 1..Len(blocks) |->
                  [j \in 1..Len(blocks[k]) |-> vertices[blocks[k][j]][1]]]
              = << <<1, 2, 3>>, <<1, 2, 3, 4>> >>

\* the monotonicity vector was segmented into its two blocks
C2_Witness ==
    /\ pc = "split_done"
    /\ vertices = MonotonicityVector
    /\ blocks = << <<1, 2, 3>>, <<4, 5, 6, 7>> >>

\* C3: with more than 300 records and no reversion the result is the single
\* block of all records, whatever the distances and index jumps; with 300
\* records or fewer, or with a reversion, the short-circuit is not taken:
\* every pair that satisfies a break condition is separated.
C3_ShortCircuit ==
    pc = "split_done" =>
        /\ ShortCircuitApplies => blocks = << Interval(1, Len(vertices)) >>
        /\ ~ShortCircuitApplies =>
              \A p \in BreakPositions : ~SameBlock(p - 1, p)

\* more than 300 records, no reversion, a pair too far apart: one block
C3_Witness ==
    /\ pc = "split_done"
    /\ Len(vertices) > 300
    /\ NoReversion
    /\ \E p \in 2..Len(vertices) : Far(p)
    /\ blocks = << Interval(1, Len(vertices)) >>

StrictlyIncreasing == \A p \in 2..Len(vertices) : vertices[p][1] > vertices[p-1][1]

\* C4 as stated: for an input of any length with strictly increasing indices,
\* a consecutive pair farther apart than distance_threshold is never in the
\* same returned block.
C4_DistanceBreakAnyLength ==
    (pc = "split_done" /\ StrictlyIncreasing) =>
        \A p \in 2..Len(vertices) : Far(p) => ~SameBlock(p - 1, p)

\* C4 (amended): for an input of at most 300 records with strictly increasing
\* indices, a consecutive pair farther apart than distance_threshold is never
\* in the same returned block.
C4_DistanceBreak ==
    (pc = "split_done" /\ StrictlyIncreasing /\ Len(vertices) <= 300) =>
        \A p \in 2..Len(vertices) : Far(p) => ~SameBlock(p - 1, p)

\* 300 records with increasing indices, one of them far away, and the
\* records before it returned as a block that stops at the far pair
C4_Witness ==
    /\ pc = "split_done"
    /\ StrictlyIncreasing
    /\ Len(vertices) = 300
    /\ \E p \in 4..Len(vertices) :
          /\ Far(p)
          /\ \E k \in 1..Len(blocks) : blocks[k][Len(blocks[k])] = p - 1

\* C5 as stated: when reading the PDF fails, extraer_vertices reports the
\* failure and returns the empty list, never the records accumulated before
\* the failure.
C5_EmptyOnFailure ==
    (pc = "extract_done" /\ error_shown) => vertices = <<>>

\* C6 as stated: when processing ends without any polygon (fewer than 3
\* records, no block, or no valid polygon), a warning was shown, no output
\* file was written and the caller's 4-name unpacking did not raise.
C6_GracefulHalt ==
    (pc \in {"ui_value_error", "ui_results_shown", "ui_idle"} /\ geoms = <<>>) =>
        /\ warned
        /\ files = {}
        /\ pc # "ui_value_error"

\* the classes of a normalized cell, as the specification words them
IndexLike(c) ==
    \E k \in 0..1 :
        /\ Len(c) > k
        /\ k = 1 => c[1] \in {"P", "p"}
        /\ \A j \in (k + 1)..Len(c) : IsDigit(c[j])
CoordLike(c, m) ==
    \E k \in m..Len(c) :
        /\ \A j \in 1..k : IsDigit(c[j])
        /\ \/ k = Len(c)
           \/ c[k + 1] = "." /\ \A j \in (k + 2)..Len(c) : IsDigit(c[j])
EastingLike(c) == CoordLike(c, 6)
NorthingLike(c) == CoordLike(c, 7)
HasClass(cr, Class(_)) == \E k \in 1..Len(cr) : Class(cr[k])
FirstOf(cr, Class(_)) ==
    cr[CHOOSE k \in 1..Len(cr) : Class(cr[k]) /\ \A j \in 1..(k - 1) : ~Class(cr[j])]
\* a candidate without its P/p prefix letter
Unprefixed(c) == IF c # <<>> /\ c[1] \in {"P", "p"} THEN Tail(c) ELSE c

\* a step that runs the body of the row loop to its end
RowBodyStep == pc = "extract_row_body" /\ pc' # "extract_done"

\* C7: a row appends exactly one record to the end of the list when its
\* normalized cells hold an index-like, an easting-like (6+ leading digits)
\* and a northing-like (7+ leading digits) cell, one cell possibly serving
\* several classes, and nothing otherwise; easting and northing are those of
\* the first cell of their class; earlier records stay in place.
C7_PerRow ==
    [][ RowBodyStep =>
          LET cr == CleanRow(row)
          IN  IF HasClass(cr, IndexLike) /\ HasClass(cr, EastingLike)
                    /\ HasClass(cr, NorthingLike)
              THEN /\ Len(vertices') = Len(vertices) + 1
                   /\ SubSeq(vertices', 1, Len(vertices)) = vertices
                   /\ vertices'[Len(vertices')][2] = FloatOf(FirstOf(cr, EastingLike))
                   /\ vertices'[Len(vertices')][3] = FloatOf(FirstOf(cr, NorthingLike))
              ELSE vertices' = vertices ]_vars

\* the second record came from a row whose 7-digit cell served as index and
\* northing while an earlier cell gave the easting
C7_Witness ==
    /\ pc \in {"extract_rows", "extract_tables"}
    /\ Len(vertices) = 2
    /\ vertices[2] = <<9000000, 500000 * Scale + 5, 9000000 * Scale>>

\* C8: the index of an emitted record is the integer value of the first
\* index candidate without its prefix letter when that is purely numeric,
\* and the number of records emitted so far plus one when it is not; and
\* the isdigit test of the code succeeds in every yielding row, so the
\* fallback is never taken.
C8_EmittedIndex ==
    [][ (RowBodyStep /\ Len(vertices') = Len(vertices) + 1) =>
          LET cand == Unprefixed(FirstOf(CleanRow(row), IndexLike))
              numeric == cand # <<>> /\ \A j \in 1..Len(cand) : IsDigit(cand[j])
          IN  /\ vertices'[Len(vertices')][1] =
                    IF numeric THEN IntOf(cand) ELSE Len(vertices) + 1
              /\ IsDigitStr(StripPrefix(PickMatch(p_matches(CleanRow(row))))) ]_vars

\* the second record carries the index 1 of a "P1" or "p 1" cell, not the
\* count 1 + 1
C8_Witness ==
    /\ pc \in {"extract_rows", "extract_tables"}
    /\ Len(vertices) = 2
    /\ vertices[2][1] = 1

\* the coordinate pairs of block number k
CoordsOfBlock(k) ==
    [j \in 1..Len(blocks[k]) |->
        <<vertices[blocks[k][j]][2], vertices[blocks[k][j]][3]>>]

\* C9: the ring built for a block starts and ends with the same pair; it is
\* the block's pairs unchanged when the block is already closed, and the
\* block's pairs plus one copy of the first pair otherwise; a ring is passed
\* to Polygon exactly when it has at least 4 pairs.
C9_RingClosure ==
    (pc \in {"poly_loop", "proc_returned", "ui_value_error", "ui_results_shown"} /\ pid > 1) =>
        LET bc == CoordsOfBlock(pid - 1)
        IN  /\ coords[1] = coords[Len(coords)]
            /\ bc[1] = bc[Len(bc)] => coords = bc
            /\ bc[1] # bc[Len(bc)] => coords = Append(bc, bc[1])
            /\ \A h \in 1..Len(handed) : Len(handed[h]) >= 4
            /\ IF Len(coords) >= 4
               THEN verdicts[pid - 1] # "skipped" /\ handed[Len(handed)] = coords
               ELSE verdicts[pid - 1] = "skipped"

\* two rings were passed on: one closed by appending, one already closed
C9_Witness ==
    /\ pc = "poly_loop"
    /\ Len(handed) = 2
    /\ Len(handed[1]) = Len(blocks[1]) + 1
    /\ Len(handed[2]) = Len(blocks[2])

Retained(k) == verdicts[k] \in {"valid", "repaired"}
CsvRowsOf(p) ==
    LET IsOfP(r) == r[1] = p
    IN  SelectSeq(csv, IsOfP)

\* C10: every block read gets a verdict and the loop goes on to the next
\* one; the identifiers of the retained polygons are the 1-based numbers of
\* their blocks, hence strictly increasing; and in the CSV the rows tagged
\* with a retained polygon's identifier are the records of the block whose
\* ring that polygon was built from.
C10_PolygonIds ==
    (pc \in {"poly_loop", "proc_returned", "ui_value_error", "ui_results_shown"} /\ pid >= 1) =>
        /\ Len(verdicts) = pid - 1
        /\ pc # "poly_loop" => Len(verdicts) = Len(blocks)
        /\ Len(pids) = Len(geoms)
        /\ \A j \in 1..(Len(pids) - 1) : pids[j] < pids[j + 1]
        /\ { pids[j] : j \in 1..Len(pids) } = { k \in 1..Len(verdicts) : Retained(k) }
        /\ files # {} =>
              \A j \in 1..Len(pids) :
                 LET rows == CsvRowsOf(pids[j])
                 IN  /\ [k \in 1..Len(rows) |-> <<rows[k][2], rows[k][3], rows[k][4]>>]
                          = BlockRecords(vertices, blocks[pids[j]])
                     /\ LET cs == [k \in 1..Len(rows) |-> <<rows[k][3], rows[k][4]>>]
                        IN  geoms[j][2] = IF cs[1] # cs[Len(cs)] THEN Append(cs, cs[1]) ELSE cs

\* the first block was dropped, the second retained with identifier 2, and
\* the files were written
C10_Witness ==
    /\ pc = "ui_results_shown"
    /\ Len(verdicts) = 2
    /\ verdicts[1] \in {"dropped", "skipped"}
    /\ pids = <<2>>
    /\ files # {}

====
